---- MODULE Spec2Model ----
(***************************************************************************)
(* Sage's Oracle: the chunker (backend/utils/chunking.py), the ETL         *)
(* pipeline (backend/etl/pipeline.py), the RAG engine                      *)
(* (backend/core/rag_engine.py) and the HTTP layer (backend/api/main.py).  *)
(*                                                                         *)
(* A Python str is a sequence of symbols: the letters "a" and "b", and one *)
(* symbol for each literal the code writes ("# ", "\n\n", ...).  A token   *)
(* is a symbol too: the tokenizer merges the pair "a" "b" into the token   *)
(* "ab" and keeps every other symbol as a token of its own.                *)
(***************************************************************************)
EXTENDS Integers, Sequences, FiniteSets, TLC

VARIABLES
    ruleIn,      \* chunk_rule_section: the rule_data argument
    maxTok,      \* chunk_rule_section: the max_tokens argument
    ovl,         \* chunk_rule_section: the overlap argument
    chunkOut,    \* chunk_rule_section: what the call did ("none" before it)
    spellIn,     \* chunk_spell: the spell_data argument
    spellOut,    \* chunk_spell: the chunk returned ("none" before the call)
    rag_engine,  \* main.py's global: NoEngine, or the RAGEngine instance
    argsortTies, \* the order the build's np.argsort leaves equal scores in
    queryIn,     \* retrieve / generate_answer: the query argument
    topK,        \* retrieve: the top_k argument
    retrieveOut, \* retrieve: what the call did
    retrieveAgain, \* retrieve: what a second call with the same arguments did
    llmReply,    \* _call_llm: what requests.post and the server did
    answerOut,   \* generate_answer: what the call did
    rawFiles,    \* data/raw/<category>.json: None (no file) or Some(records)
    chunksFile,  \* data/processed/all_chunks.json: None or Some(chunks)
    embFile,     \* data/embeddings/embeddings.npy: None or Some(matrix)
    metaFile,    \* data/embeddings/metadata.json: None or Some(entries)
    pipePc,      \* run_full_pipeline: "idle", "scraped", "chunked" or "done"
    pipeChunks,  \* run_full_pipeline: its local chunks
    runs,        \* pipeline runs started
    stepTwoLog,  \* history: what each run of step 2 read and what it wrote
    appState,    \* the API process: "down", "up" or "crashed"
    httpOut      \* the last response of the API

chunkVars == <<ruleIn, maxTok, ovl, chunkOut, spellIn, spellOut>>

engineVars ==
    <<rag_engine, argsortTies, queryIn, topK, retrieveOut, retrieveAgain, llmReply, answerOut>>

fileVars == <<rawFiles, chunksFile, embFile, metaFile>>

pipeVars == <<pipePc, pipeChunks, runs, stepTwoLog>>

sysVars == <<fileVars, pipeVars, appState, httpOut>>

vars == <<chunkVars, engineVars, sysVars>>

(***************************************************************************)
(* Bounds of the model.                                                    *)
(***************************************************************************)
MaxDescLen == 4     \* longest rule description, in symbols
MaxParam == 3       \* largest max_tokens and overlap drawn
MaxN == 3           \* most chunks of a drawn index
MaxRuns == 2        \* most pipeline runs

(***************************************************************************)
(* Program constants.                                                      *)
(***************************************************************************)
DefaultMaxTokens == 512
DefaultOverlap == 50
BatchSize == 32
DefaultTopK == 5

Letters == {"a", "b"}

Min(x, y) == IF x <= y THEN x ELSE y

Max(x, y) == IF x >= y THEN x ELSE y

SeqsUpTo(S, n) == UNION {[1..k -> S] : k \in 0..n}

\* A value that stands for "no value": a result not produced yet.
NoResult == [status |-> "none"]

\* The dict {}.
EmptyDict == <<>>

\* A Python value that may be None: None, or Some(v).
None == <<>>

Some(v) == <<v>>

(***************************************************************************)
(* dict.get(key, default) on a record that may lack the key.               *)
(***************************************************************************)
Get(d, k, default) == IF k \in DOMAIN d THEN d[k] ELSE default

(***************************************************************************)
(* The tokenizer (tiktoken): encode merges each "a" followed by "b" into   *)
(* the token "ab"; decode writes every token's symbols back.               *)
(***************************************************************************)
Merges(t, i) == i < Len(t) /\ t[i] = "a" /\ t[i + 1] = "b"

Absorbed(t, i) == i > 1 /\ Merges(t, i - 1)

Encode(t) ==
    LET idx == SelectSeq([i \in 1..Len(t) |-> i], LAMBDA i : ~Absorbed(t, i))
    IN  [k \in 1..Len(idx) |-> IF Merges(t, idx[k]) THEN "ab" ELSE t[idx[k]]]

TokenText(tok) == IF tok = "ab" THEN <<"a", "b">> ELSE <<tok>>

RECURSIVE Decode(_)
Decode(toks) ==
    IF Len(toks) = 0 THEN <<>>
    ELSE IF Len(toks) = 1 THEN TokenText(toks[1])
    ELSE LET h == Len(toks) \div 2
         IN  Decode(SubSeq(toks, 1, h)) \o Decode(SubSeq(toks, h + 1, Len(toks)))

count_tokens(text) == Len(Encode(text))

\* Slice with its end one too far.
SliceOneMore(s, i, j) == SubSeq(s, i + 1, Min(j + 1, Len(s)))

\* Python's tokens[i:j] for 0 <= i, on a sequence indexed from 1.
Slice(s, i, j) == SubSeq(s, i + 1, Min(j, Len(s)))

\* sep.join(parts)
RECURSIVE Join(_, _)
Join(sep, parts) ==
    IF Len(parts) = 0 THEN <<>>
    ELSE IF Len(parts) = 1 THEN parts[1]
    ELSE parts[1] \o sep \o Join(sep, Tail(parts))

\* "\n".join(parts)
JoinLines(parts) == Join(<<"\n">>, parts)

\* d.get(key), which is None for a missing key.
OptGet(d, k) == IF k \in DOMAIN d THEN Some(d[k]) ELSE None

\* Truthy taking a present key for a truthy value.
TruthyKeyPresent(d, k) == k \in DOMAIN d

\* Whether d.get(key) is truthy, for a list or str value.
Truthy(d, k) == k \in DOMAIN d /\ Len(d[k]) > 0

\* An int formatted by an f-string; a missing one by its default text.
FmtInt(d, k, default) == IF k \in DOMAIN d THEN <<ToString(d[k])>> ELSE default

(***************************************************************************)
(* TextChunker.chunk_spell.                                                *)
(***************************************************************************)
chunk_spell(spell_data) ==
    LET school == Get(spell_data, "school", EmptyDict)
        head == <<
            <<"# ">> \o Get(spell_data, "name", <<"Unknown Spell">>),
            <<"**Level:** ">> \o FmtInt(spell_data, "level", <<"0">>),
            <<"**School:** ">> \o Get(school, "name", <<"Unknown">>),
            <<"**Casting Time:** ">> \o Get(spell_data, "casting_time", <<"Unknown">>),
            <<"**Range:** ">> \o Get(spell_data, "range", <<"Unknown">>),
            <<"**Duration:** ">> \o Get(spell_data, "duration", <<"Unknown">>),
            <<"**Components:** ">> \o Join(<<", ">>, Get(spell_data, "components", <<>>))>>
        desc == IF Truthy(spell_data, "desc")
                THEN <<<<"\n**Description:**">>>> \o spell_data.desc
                ELSE <<>>
        higher == IF Truthy(spell_data, "higher_level")
                  THEN <<<<"\n**At Higher Levels:**">>>> \o spell_data.higher_level
                  ELSE <<>>
        full_text == JoinLines(head \o desc \o higher)
    IN  [text |-> full_text,
         metadata |-> [type |-> "spell",
                       name |-> OptGet(spell_data, "name"),
                       level |-> OptGet(spell_data, "level"),
                       school |-> OptGet(school, "name"),
                       source |-> "SRD 5e",
                       url |-> <<"https://www.dnd5eapi.co">> \o Get(spell_data, "url", <<>>)],
         token_count |-> count_tokens(full_text)]

(***************************************************************************)
(* TextChunker.chunk_monster.                                              *)
(***************************************************************************)
Abilities == <<"strength", "dexterity", "constitution", "intelligence", "wisdom", "charisma">>

AbilityUpper(ability) ==
    CASE ability = "strength" -> "STRENGTH"
      [] ability = "dexterity" -> "DEXTERITY"
      [] ability = "constitution" -> "CONSTITUTION"
      [] ability = "intelligence" -> "INTELLIGENCE"
      [] ability = "wisdom" -> "WISDOM"
      [] OTHER -> "CHARISMA"

\* f"{modifier:+d}"
Signed(n) == IF n >= 0 THEN <<"+", ToString(n)>> ELSE <<ToString(n)>>

AbilityLine(monster_data, ability) ==
    LET score == Get(monster_data, ability, 10)
        modifier == (score - 10) \div 2
    IN  <<"- ", AbilityUpper(ability), ": ", ToString(score), " (">> \o Signed(modifier)
            \o <<")">>

\* One "- **name:** desc" line of a special ability or an action.
NamedLine(entry) ==
    <<"- **">> \o Get(entry, "name", <<"None">>) \o <<":** ">>
        \o Get(entry, "desc", <<"None">>)

chunk_monster(monster_data) ==
    LET armor == Get(monster_data, "armor_class", <<EmptyDict>>)[1]
        head == <<
            <<"# ">> \o Get(monster_data, "name", <<"Unknown Monster">>),
            <<"*">> \o Get(monster_data, "size", <<>>) \o <<" ">>
                \o Get(monster_data, "type", <<>>) \o <<", ">>
                \o Get(monster_data, "alignment", <<>>) \o <<"*">>,
            <<"\n**Armor Class:** ">> \o FmtInt(armor, "value", <<"N/A">>),
            <<"**Hit Points:** ">> \o FmtInt(monster_data, "hit_points", <<"N/A">>),
            <<"**Speed:** ">> \o Get(monster_data, "speed", <<"{}">>),
            <<"**Challenge Rating:** ">>
                \o FmtInt(monster_data, "challenge_rating", <<"N/A">>),
            <<"\n**Ability Scores:**">>>>
        scores == [k \in 1..Len(Abilities) |-> AbilityLine(monster_data, Abilities[k])]
        special == IF Truthy(monster_data, "special_abilities")
                   THEN <<<<"\n**Special Abilities:**">>>>
                        \o [k \in 1..Len(monster_data.special_abilities) |->
                               NamedLine(monster_data.special_abilities[k])]
                   ELSE <<>>
        actions == IF Truthy(monster_data, "actions")
                   THEN <<<<"\n**Actions:**">>>>
                        \o [k \in 1..Len(monster_data.actions) |->
                               NamedLine(monster_data.actions[k])]
                   ELSE <<>>
        full_text == JoinLines(head \o scores \o special \o actions)
    IN  [text |-> full_text,
         metadata |-> [type |-> "monster",
                       name |-> OptGet(monster_data, "name"),
                       cr |-> OptGet(monster_data, "challenge_rating"),
                       monster_type |-> OptGet(monster_data, "type"),
                       size |-> OptGet(monster_data, "size"),
                       source |-> "SRD 5e",
                       url |-> <<"https://www.dnd5eapi.co">>
                                   \o Get(monster_data, "url", <<>>)],
         token_count |-> count_tokens(full_text)]

(***************************************************************************)
(* TextChunker.chunk_rule_section.                                         *)
(***************************************************************************)
RuleUrl(rule_data) == <<"https://www.dnd5eapi.co">> \o Get(rule_data, "url", <<>>)

RuleWindowChunk(tokens, i, max_tokens, title, url, index) ==
    LET chunk_tokens == Slice(tokens, i, i + max_tokens)
    IN  [text |-> Decode(chunk_tokens),
         metadata |-> [type |-> "rule", section |-> title, chunk_index |-> index,
                       source |-> "SRD 5e", url |-> url],
         token_count |-> Len(chunk_tokens)]

\* RuleLoop stepping by max_tokens: the overlap forgotten.
RECURSIVE RuleLoopNoOverlap(_, _, _, _, _, _, _)
RuleLoopNoOverlap(tokens, i, step, max_tokens, title, url, chunks) ==
    IF i >= Len(tokens) THEN chunks
    ELSE RuleLoopNoOverlap(tokens, i + max_tokens, step, max_tokens, title, url,
                  Append(chunks,
                         RuleWindowChunk(tokens, i, max_tokens, title, url, Len(chunks))))

\* RuleLoop ending where no full window is left: the tail dropped.
RECURSIVE RuleLoopDropsTail(_, _, _, _, _, _, _)
RuleLoopDropsTail(tokens, i, step, max_tokens, title, url, chunks) ==
    IF i + max_tokens > Len(tokens) THEN chunks
    ELSE RuleLoopDropsTail(tokens, i + step, step, max_tokens, title, url,
                  Append(chunks,
                         RuleWindowChunk(tokens, i, max_tokens, title, url, Len(chunks))))

\* for i in range(0, len(tokens), step) with step > 0: the loop from i on.
RECURSIVE RuleLoop(_, _, _, _, _, _, _)
RuleLoop(tokens, i, step, max_tokens, title, url, chunks) ==
    IF i >= Len(tokens) THEN chunks
    ELSE RuleLoop(tokens, i + step, step, max_tokens, title, url,
                  Append(chunks,
                         RuleWindowChunk(tokens, i, max_tokens, title, url, Len(chunks))))

chunk_rule_section(rule_data, max_tokens, overlap) ==
    LET title == Get(rule_data, "name", <<"Unknown Rule">>)
        desc == Get(rule_data, "desc", <<>>)
        full_text == <<"# ">> \o title \o <<"\n\n">> \o desc
        token_count == count_tokens(full_text)
        tokens == Encode(full_text)
        step == max_tokens - overlap
    IN  IF token_count <= max_tokens
        THEN [status |-> "ok",
              chunks |-> <<[text |-> full_text,
                            metadata |-> [type |-> "rule", section |-> title,
                                          source |-> "SRD 5e",
                                          url |-> RuleUrl(rule_data)],
                            token_count |-> token_count]>>]
        ELSE IF step = 0
        THEN [status |-> "ValueError", chunks |-> <<>>]
        ELSE IF step < 0
        THEN [status |-> "ok", chunks |-> <<>>]
        ELSE [status |-> "ok",
              chunks |-> RuleLoop(tokens, 0, step, max_tokens, title,
                                  RuleUrl(rule_data), <<>>)]

(***************************************************************************)
(* RAGEngine.  A score is an integer number of ten-thousandths.            *)
(***************************************************************************)
NoEngine == [kind |-> "None"]

RECURSIVE SumOver(_, _)
SumOver(f, S) ==
    IF S = {} THEN 0
    ELSE LET x == CHOOSE y \in S : TRUE IN f[x] + SumOver(f, S \ {x})

\* np.dot of two vectors.
Dot(u, v) == SumOver([d \in DOMAIN u |-> u[d] * v[d]], DOMAIN u)

\* np.dot(self.embeddings, query_embedding): one score per row.
Similarities(embeddings, q) == [i \in 1..Len(embeddings) |-> Dot(embeddings[i], q)]

\* SentenceTransformer.encode on one text: the embedding model is external;
\* it is deterministic, here the counts of the two letters.
Embed(text) ==
    <<Cardinality({i \in 1..Len(text) : text[i] = "a"}),
      Cardinality({i \in 1..Len(text) : text[i] = "b"})>>

\* Whether row j is put before row i by np.argsort: ascending by score; the
\* order of equal scores is the build's (ties).
SortsBefore(sims, ties, j, i) ==
    \/ sims[j] < sims[i]
    \/ /\ sims[j] = sims[i]
       /\ IF ties = "index_asc" THEN j < i ELSE j > i

\* ArgSort in descending order: the sort direction mistaken.
ArgSortDescending(sims, ties) ==
    [k \in 1..Len(sims) |->
        CHOOSE i \in 1..Len(sims) :
            Cardinality({j \in 1..Len(sims) : SortsBefore(sims, ties, i, j)}) = k - 1]

\* np.argsort(similarities): the row indices (from 1 here), ascending by score.
ArgSort(sims, ties) ==
    [k \in 1..Len(sims) |->
        CHOOSE i \in 1..Len(sims) :
            Cardinality({j \in 1..Len(sims) : SortsBefore(sims, ties, j, i)}) = k - 1]

\* Python's s[start:] for any integer start.
SliceFrom(s, start) ==
    LET from == IF start < 0 THEN Max(Len(s) + start, 0) ELSE Min(start, Len(s))
    IN  SubSeq(s, from + 1, Len(s))

\* Reverse left out.
ReverseForgotten(s) == s

\* Python's s[::-1].
Reverse(s) == [k \in 1..Len(s) |-> s[Len(s) + 1 - k]]

\* TopIndices taking one index too few.
TopIndicesOneLess(sims, ties, top_k) == Reverse(SliceFrom(ArgSort(sims, ties), 1 - top_k))

\* top_indices = np.argsort(similarities)[-top_k:][::-1]
TopIndices(sims, ties, top_k) == Reverse(SliceFrom(ArgSort(sims, ties), 0 - top_k))

\* RAGEngine.retrieve.
retrieve(self, ties, query, top_k) ==
    LET query_embedding == Embed(query)
        similarities == Similarities(self.embeddings, query_embedding)
        top_indices == TopIndices(similarities, ties, top_k)
    IN  IF \E k \in 1..Len(top_indices) : top_indices[k] > Len(self.chunks)
        THEN [status |-> "IndexError", results |-> <<>>]
        ELSE [status |-> "ok",
              results |-> [k \in 1..Len(top_indices) |->
                              [chunk |-> self.chunks[top_indices[k]],
                               score |-> similarities[top_indices[k]]]]]

\* The instance after a retrieve that sorted self.embeddings where it is.
EngineAfterRetrieveSorted(self) ==
    [self EXCEPT !.embeddings = Reverse(self.embeddings)]

\* The instance after retrieve: no attribute of self is assigned, np.dot and
\* np.argsort give new arrays, the results refer to the chunks as they are.
EngineAfterRetrieve(self) == self

\* The instance after generate_answer: the chunks handed in are the ones
\* self.chunks holds, and they are only read.
EngineAfterGenerateAnswer(self, context_chunks) == self

\* round(score, 3): to the nearest multiple of ten ten-thousandths, a half
\* to the even one.
Round3(score) ==
    LET r == score % 10
        down == score - r
    IN  IF r < 5 THEN down
        ELSE IF r > 5 THEN down + 10
        ELSE IF (down \div 10) % 2 = 0 THEN down ELSE down + 10

\* str.strip(): the blanks at both ends removed.
RECURSIVE Strip(_)
Strip(t) ==
    IF Len(t) = 0 THEN t
    ELSE IF t[1] = " " THEN Strip(Tail(t))
    ELSE IF t[Len(t)] = " " THEN Strip(SubSeq(t, 1, Len(t) - 1))
    ELSE t


\* call_llm answering a failure with the empty text.
call_llm_silent(prompt, reply) ==
    IF reply.kind = "json"
    THEN Strip(Get(reply.body, "response", <<>>))
    ELSE <<>>

\* RAGEngine._call_llm: requests.post, raise_for_status, response.json();
\* every requests.exceptions.RequestException becomes the answer text.
\* (requests.exceptions.JSONDecodeError is a RequestException.)
call_llm(prompt, reply) ==
    IF reply.kind = "json"
    THEN Strip(Get(reply.body, "response", <<>>))
    ELSE <<"Error calling LLM: ", reply.kind>>

\* RAGEngine._build_prompt.
build_prompt(query, context) ==
    <<"You are Sage, ...", "IMPORTANT RULES: ...", "DOCUMENTS:\n">> \o context
        \o <<"\n\nQUESTION: ">> \o query \o <<"\n\nANSWER:">>

\* The three context parts of the i-th chunk.
ContextParts(i, chunk) == <<<<"[Documento ", ToString(i), "]">>, chunk.text, <<>>>>

RECURSIVE AllContextParts(_, _)
AllContextParts(context_chunks, i) ==
    IF i > Len(context_chunks) THEN <<>>
    ELSE ContextParts(i, context_chunks[i].chunk) \o AllContextParts(context_chunks, i + 1)

\* SourceOf numbering the documents from 0.
SourceOfZeroBased(i, chunk, score) ==
    [doc_id |-> i - 1,
     type |-> chunk.metadata.type,
     name |-> Get(chunk.metadata, "name", Some(<<"Unknown">>)),
     source |-> chunk.metadata.source,
     url |-> Get(chunk.metadata, "url", <<>>),
     relevance_score |-> Round3(score)]

\* The source record of the i-th chunk (i from 1).
SourceOf(i, chunk, score) ==
    [doc_id |-> i,
     type |-> chunk.metadata.type,
     name |-> Get(chunk.metadata, "name", Some(<<"Unknown">>)),
     source |-> chunk.metadata.source,
     url |-> Get(chunk.metadata, "url", <<>>),
     relevance_score |-> Round3(score)]

\* RAGEngine.generate_answer.
generate_answer(query, context_chunks, reply) ==
    IF \E j \in 1..Len(context_chunks) :
           ~({"type", "source"} \subseteq DOMAIN context_chunks[j].chunk.metadata)
    THEN [status |-> "KeyError"]
    ELSE LET context == JoinLines(AllContextParts(context_chunks, 1))
             prompt == build_prompt(query, context)
             answer == call_llm(prompt, reply)
         IN  [status |-> "ok",
              answer |-> answer,
              sources |-> [j \in 1..Len(context_chunks) |->
                              SourceOf(j, context_chunks[j].chunk,
                                       context_chunks[j].score)],
              context_used |-> Len(context_chunks)]

(***************************************************************************)
(* The rule records and parameters the chunker is tried on.                *)
(***************************************************************************)
RuleNames == {<<"a">>}

RuleRecords ==
    {[desc |-> d, url |-> <<"/r">>] : d \in SeqsUpTo(Letters, MaxDescLen)}
    \cup {[name |-> nm, desc |-> d, url |-> <<"/r">>] :
              nm \in RuleNames, d \in SeqsUpTo(Letters, MaxDescLen)}
    \cup {[name |-> nm] : nm \in RuleNames}

\* The section of 1100 tokens: "# ", the name, "\n\n" and 1097 letters "b".
LongRule == [name |-> <<"a">>, desc |-> [i \in 1..1097 |-> "b"], url |-> <<"/r">>]

\* Spell records: with and without a name, a description and a
\* higher_level list, the list empty, of one line (an empty one too) or two.
SpellRecords ==
    {[level |-> 1, school |-> [name |-> <<"a">>]] @@ nm @@ desc @@ higher :
        nm \in {EmptyDict, [name |-> <<"a">>]},
        desc \in {EmptyDict, [desc |-> <<>>], [desc |-> <<<<"a", "b">>>>]},
        higher \in {EmptyDict, [higher_level |-> <<>>], [higher_level |-> <<<<>>>>],
                    [higher_level |-> <<<<"b">>>>],
                    [higher_level |-> <<<<"a", "b">>, <<"b">>>>]}}

ChunkIdle ==
    /\ ruleIn = [name |-> <<"a">>]
    /\ maxTok = DefaultMaxTokens
    /\ ovl = DefaultOverlap
    /\ chunkOut = NoResult
    /\ spellIn = [level |-> 0]
    /\ spellOut = NoResult

EngineIdle ==
    /\ rag_engine = NoEngine
    /\ argsortTies = "index_asc"
    /\ queryIn = <<>>
    /\ topK = DefaultTopK
    /\ retrieveOut = NoResult
    /\ retrieveAgain = NoResult
    /\ llmReply = NoResult
    /\ answerOut = NoResult

SysIdle ==
    /\ rawFiles = [spells |-> None, monsters |-> None, rules |-> None]
    /\ chunksFile = None
    /\ embFile = None
    /\ metaFile = None
    /\ pipePc = "idle"
    /\ pipeChunks = <<>>
    /\ runs = 0
    /\ stepTwoLog = <<>>
    /\ appState = "down"
    /\ httpOut = NoResult

ChunkInit ==
    /\ EngineIdle
    /\ SysIdle
    /\ chunkOut = NoResult
    /\ spellOut = NoResult
    /\ \/ /\ ruleIn \in RuleRecords
          /\ maxTok \in 1..MaxParam
          /\ ovl \in 0..MaxParam
          /\ spellIn = [level |-> 0]
       \/ /\ ruleIn = LongRule
          /\ maxTok = DefaultMaxTokens
          /\ ovl = DefaultOverlap
          /\ spellIn = [level |-> 0]
       \/ /\ ruleIn = [name |-> <<"a">>]
          /\ maxTok = DefaultMaxTokens
          /\ ovl = DefaultOverlap
          /\ spellIn \in SpellRecords

\* A call of chunk_rule_section(rule_data, max_tokens, overlap).
ChunkRule ==
    /\ chunkOut = NoResult
    /\ chunkOut' = chunk_rule_section(ruleIn, maxTok, ovl)
    /\ UNCHANGED <<ruleIn, maxTok, ovl, spellIn, spellOut, engineVars, sysVars>>

\* A call of chunk_spell(spell_data).
ChunkSpell ==
    /\ spellOut = NoResult
    /\ spellOut' = chunk_spell(spellIn)
    /\ UNCHANGED <<ruleIn, maxTok, ovl, chunkOut, spellIn, engineVars, sysVars>>

ChunkNext == ChunkRule \/ ChunkSpell

SpecChunk == ChunkInit /\ [][ChunkNext]_vars

(***************************************************************************)
(* The indexes, queries and replies the engine is tried on.                *)
(***************************************************************************)
\* Six different chunks: the windows of one rule section.
SampleChunks ==
    chunk_rule_section([name |-> <<"a">>, desc |-> <<"b", "a", "b">>, url |-> <<"/r">>],
                       1, 0).chunks
    \o chunk_rule_section([desc |-> <<"a">>], 2, 0).chunks

\* The metadata sequence that goes with a chunk sequence.
MetadataOf(chunks) ==
    [i \in 1..Len(chunks) |->
        [id |-> i - 1, metadata |-> chunks[i].metadata,
         token_count |-> chunks[i].token_count]]

Engine(chunks, embeddings) ==
    [kind |-> "RAGEngine", chunks |-> chunks, embeddings |-> embeddings,
     metadata |-> MetadataOf(chunks)]

EmbRows == {<<0, 0>>, <<1, 0>>, <<0, 1>>, <<-1, 1>>}

DrawnEngines ==
    UNION {{Engine(SubSeq(SampleChunks, 1, n), e) : e \in [1..n -> EmbRows]} : n \in 1..MaxN}

\* Five chunks whose scores against the query "a" are 0.9, 0.1, 0.5, 0.7, 0.2.
ScenarioEngine ==
    Engine(SubSeq(SampleChunks, 1, 5),
           <<<<9000, 0>>, <<1000, 0>>, <<5000, 0>>, <<7000, 0>>, <<2000, 0>>>>)

Queries == {<<"a">>, <<"b">>, <<"a", "b", "b">>}

TopKs == (0 - MaxN - 1)..(MaxN + 1)

LlmReplies ==
    {[kind |-> "json", body |-> [response |-> <<" ", "yes", " ">>]],
     [kind |-> "json", body |-> [error |-> <<"x">>]],
     [kind |-> "Timeout"], [kind |-> "ConnectionError"], [kind |-> "HTTPError"],
     [kind |-> "JSONDecodeError"]}

EngineInit ==
    /\ ChunkIdle
    /\ SysIdle
    /\ argsortTies \in {"index_asc", "index_desc"}
    /\ retrieveOut = NoResult
    /\ retrieveAgain = NoResult
    /\ llmReply = NoResult
    /\ answerOut = NoResult
    /\ \/ /\ rag_engine \in DrawnEngines
          /\ queryIn \in Queries
          /\ topK \in TopKs
       \/ /\ rag_engine = ScenarioEngine
          /\ queryIn = <<"a">>
          /\ topK \in {3, 10}

\* A call of rag_engine.retrieve(query, top_k).
Retrieve ==
    /\ rag_engine # NoEngine
    /\ retrieveOut = NoResult
    /\ retrieveOut' = retrieve(rag_engine, argsortTies, queryIn, topK)
    /\ rag_engine' = EngineAfterRetrieve(rag_engine)
    /\ UNCHANGED <<argsortTies, queryIn, topK, retrieveAgain, llmReply, answerOut,
                   chunkVars, sysVars>>

\* The same call once more, before or after the answer is generated.
RetrieveAgain ==
    /\ retrieveOut # NoResult
    /\ retrieveAgain = NoResult
    /\ retrieveAgain' = retrieve(rag_engine, argsortTies, queryIn, topK)
    /\ rag_engine' = EngineAfterRetrieve(rag_engine)
    /\ UNCHANGED <<argsortTies, queryIn, topK, retrieveOut, llmReply, answerOut,
                   chunkVars, sysVars>>

\* A call of rag_engine.generate_answer(query, retrieved_chunks).
GenerateAnswer ==
    /\ retrieveOut # NoResult
    /\ retrieveOut.status = "ok"
    /\ answerOut = NoResult
    /\ \E reply \in LlmReplies :
          /\ llmReply' = reply
          /\ answerOut' = generate_answer(queryIn, retrieveOut.results, reply)
    /\ rag_engine' = EngineAfterGenerateAnswer(rag_engine, retrieveOut.results)
    /\ UNCHANGED <<argsortTies, queryIn, topK, retrieveOut, retrieveAgain,
                   chunkVars, sysVars>>

EngineNext == Retrieve \/ RetrieveAgain \/ GenerateAnswer

SpecEngine == EngineInit /\ [][EngineNext]_vars

(***************************************************************************)
(* ETLPipeline: step 2 (chunking) and step 3 (embeddings), as functions of *)
(* what they read.                                                         *)
(***************************************************************************)
\* RuleChunks with the last section's chunks first.
RECURSIVE RuleChunksLastFirst(_)
RuleChunksLastFirst(rules) ==
    IF Len(rules) = 0 THEN <<>>
    ELSE RuleChunksLastFirst(Tail(rules))
             \o chunk_rule_section(rules[1], DefaultMaxTokens, DefaultOverlap).chunks

RECURSIVE RuleChunks(_)
RuleChunks(rules) ==
    IF Len(rules) = 0 THEN <<>>
    ELSE chunk_rule_section(rules[1], DefaultMaxTokens, DefaultOverlap).chunks
             \o RuleChunks(Tail(rules))

\* The records of a raw file, none when the file does not exist.
RawRecords(raw, category) == IF raw[category] = None THEN <<>> ELSE raw[category][1]

\* process_and_chunk giving up at the first raw file that does not exist.
process_and_chunk_until_missing(raw) ==
    LET spells == RawRecords(raw, "spells")
        monsters == IF raw.spells = None THEN <<>> ELSE RawRecords(raw, "monsters")
        rules == IF raw.spells = None \/ raw.monsters = None
                 THEN <<>> ELSE RawRecords(raw, "rules")
    IN  [k \in 1..Len(spells) |-> chunk_spell(spells[k])]
        \o [k \in 1..Len(monsters) |-> chunk_monster(monsters[k])]
        \o RuleChunks(rules)

\* all_chunks of step_2_process_and_chunk.
process_and_chunk(raw) ==
    LET spells == RawRecords(raw, "spells")
        monsters == RawRecords(raw, "monsters")
        rules == RawRecords(raw, "rules")
    IN  [k \in 1..Len(spells) |-> chunk_spell(spells[k])]
        \o [k \in 1..Len(monsters) |-> chunk_monster(monsters[k])]
        \o RuleChunks(rules)

\* embedding_model.encode(texts, batch_size): batch after batch, in order.
RECURSIVE encode(_, _)
encode(texts, batch_size) ==
    IF Len(texts) = 0 THEN <<>>
    ELSE LET n == Min(batch_size, Len(texts))
         IN  [k \in 1..n |-> Embed(texts[k])]
             \o encode(SubSeq(texts, n + 1, Len(texts)), batch_size)

\* The embeddings step 3 saves.
StepThreeEmbeddings(chunks) ==
    encode([k \in 1..Len(chunks) |-> chunks[k].text], BatchSize)

\* StepThreeMetadata numbering the entries from 1.
StepThreeMetadataFromOne(chunks) ==
    [i \in 1..Len(chunks) |->
        [id |-> i, metadata |-> chunks[i].metadata,
         token_count |-> chunks[i].token_count]]

\* The metadata step 3 saves.
StepThreeMetadata(chunks) ==
    [i \in 1..Len(chunks) |->
        [id |-> i - 1, metadata |-> chunks[i].metadata,
         token_count |-> chunks[i].token_count]]

(***************************************************************************)
(* The raw records the catalog serves.                                     *)
(***************************************************************************)
SpellA ==
    [name |-> <<"a">>, level |-> 3, school |-> [name |-> <<"b">>],
     components |-> <<<<"V">>, <<"S">>>>, desc |-> <<<<"a", "b">>>>,
     higher_level |-> <<<<"b">>>>, url |-> <<"/s">>]

SpellB == [level |-> 0, desc |-> <<<<"b">>>>]

MonsterA ==
    [name |-> <<"b">>, size |-> <<"a">>, type |-> <<"b">>, hit_points |-> 7,
     strength |-> 7, dexterity |-> 15, actions |-> <<[name |-> <<"a">>, desc |-> <<"b">>]>>,
     url |-> <<"/m">>]

RuleShort == [name |-> <<"a">>, desc |-> <<"a", "b">>, url |-> <<"/r">>]

\* A section of 523 tokens: two windows under the defaults.
RuleLong == [name |-> <<"b">>, desc |-> [i \in 1..520 |-> "b"], url |-> <<"/l">>]

Served ==
    [spells |-> {<<SpellB, SpellA>>},
     monsters |-> {<<MonsterA>>},
     rules |-> {<<RuleShort>>, <<RuleLong, RuleShort>>}]

\* What scrape_category leaves in a raw file: the file as it was when the
\* catalog gave no results, the items fetched otherwise.
Scraped(old, category) == {old} \cup {Some(items) : items \in Served[category]}

(***************************************************************************)
(* The system: the pipeline run, the API process and its requests.         *)
(***************************************************************************)
Init ==
    /\ ChunkIdle
    /\ SysIdle
    /\ rag_engine = NoEngine
    /\ argsortTies \in {"index_asc", "index_desc"}
    /\ queryIn = <<>>
    /\ topK = DefaultTopK
    /\ retrieveOut = NoResult
    /\ retrieveAgain = NoResult
    /\ llmReply = NoResult
    /\ answerOut = NoResult

requestVars == <<queryIn, topK, retrieveOut, retrieveAgain, llmReply, answerOut, httpOut>>

\* run_full_pipeline, step 1: SRDScraper.scrape_all.
StepOne ==
    /\ pipePc \in {"idle", "done"}
    /\ runs < MaxRuns
    /\ \E s \in Scraped(rawFiles.spells, "spells"),
          m \in Scraped(rawFiles.monsters, "monsters"),
          r \in Scraped(rawFiles.rules, "rules") :
          rawFiles' = [spells |-> s, monsters |-> m, rules |-> r]
    /\ pipePc' = "scraped"
    /\ pipeChunks' = <<>>
    /\ runs' = runs + 1
    /\ UNCHANGED <<chunksFile, embFile, metaFile, stepTwoLog, appState, rag_engine, argsortTies,
                   requestVars, chunkVars>>

\* run_full_pipeline, step 2: step_2_process_and_chunk.
StepTwo ==
    /\ pipePc = "scraped"
    /\ pipeChunks' = process_and_chunk(rawFiles)
    /\ chunksFile' = Some(pipeChunks')
    /\ pipePc' = "chunked"
    /\ stepTwoLog' = Append(stepTwoLog, [raw |-> rawFiles, chunks |-> chunksFile'[1]])
    /\ UNCHANGED <<rawFiles, embFile, metaFile, runs, appState, rag_engine, argsortTies,
                   requestVars, chunkVars>>

\* run_full_pipeline, step 3: step_3_generate_embeddings(chunks).
StepThree ==
    /\ pipePc = "chunked"
    /\ embFile' = Some(StepThreeEmbeddings(pipeChunks))
    /\ metaFile' = Some(StepThreeMetadata(pipeChunks))
    /\ pipePc' = "done"
    /\ UNCHANGED <<rawFiles, chunksFile, pipeChunks, runs, stepTwoLog, appState, rag_engine,
                   argsortTies, requestVars, chunkVars>>

\* RAGEngine.__init__: the three snapshots as they are on disk.
LoadEngine ==
    [kind |-> "RAGEngine", chunks |-> chunksFile[1], embeddings |-> embFile[1],
     metadata |-> metaFile[1]]

\* startup_event of the API process.
Startup ==
    /\ appState = "down"
    /\ IF chunksFile = None
       THEN appState' = "up" /\ rag_engine' = NoEngine
       ELSE IF embFile = None \/ metaFile = None
       THEN appState' = "crashed" /\ rag_engine' = NoEngine
       ELSE appState' = "up" /\ rag_engine' = LoadEngine
    /\ UNCHANGED <<fileVars, pipeVars, argsortTies, requestVars, chunkVars>>

\* QuestionResponse(**result): every source's name must be a str.
ValidResponse(result) ==
    \A j \in 1..Len(result.sources) : result.sources[j].name # None

\* The response of ask_question, with the handler's intermediate values.
AskOutcome(question, top_k, reply) ==
    IF rag_engine = NoEngine
    THEN [http |-> [code |-> 503], retrieved |-> NoResult, result |-> NoResult]
    ELSE LET retrieved == retrieve(rag_engine, argsortTies, question, top_k)
             result == generate_answer(question, retrieved.results, reply)
         IN  IF retrieved.status # "ok"
             THEN [http |-> [code |-> 500, detail |-> retrieved.status],
                   retrieved |-> retrieved, result |-> NoResult]
             ELSE IF result.status # "ok"
             THEN [http |-> [code |-> 500, detail |-> result.status],
                   retrieved |-> retrieved, result |-> result]
             ELSE IF ~ValidResponse(result)
             THEN [http |-> [code |-> 500, detail |-> "ValidationError"],
                   retrieved |-> retrieved, result |-> result]
             ELSE [http |-> [code |-> 200, answer |-> result.answer,
                             sources |-> result.sources,
                             context_used |-> result.context_used],
                   retrieved |-> retrieved, result |-> result]

AskQuestions == {<<"a">>}

AskTopKs == {0, 2}

AskReplies == {[kind |-> "json", body |-> [response |-> <<" ", "yes", " ">>]],
               [kind |-> "Timeout"]}

\* POST /ask: ask_question.
Ask ==
    /\ appState = "up"
    /\ \E question \in AskQuestions, top_k \in AskTopKs, reply \in AskReplies :
          LET out == AskOutcome(question, top_k, reply)
          IN  /\ queryIn' = question
              /\ topK' = top_k
              /\ retrieveOut' = out.retrieved
              /\ answerOut' = out.result
              /\ llmReply' = IF out.result = NoResult THEN NoResult ELSE reply
              /\ httpOut' = [endpoint |-> "ask", response |-> out.http]
              /\ rag_engine' =
                     IF out.retrieved = NoResult THEN rag_engine
                     ELSE IF out.retrieved.status # "ok"
                     THEN EngineAfterRetrieve(rag_engine)
                     ELSE EngineAfterGenerateAnswer(EngineAfterRetrieve(rag_engine),
                                                    out.retrieved.results)
    /\ UNCHANGED <<fileVars, pipeVars, appState, argsortTies, retrieveAgain, chunkVars>>

\* The body of GET /health.
health ==
    IF rag_engine = NoEngine
    THEN [code |-> 200, status |-> "not_ready"]
    ELSE [code |-> 200, status |-> "ready", chunks_loaded |-> Len(rag_engine.chunks)]

\* list_sources answering without looking at rag_engine first.
list_sources_unguarded(doc_type) ==
    IF rag_engine = NoEngine
    THEN [code |-> 500, detail |-> "AttributeError"]
    ELSE LET filtered == SelectSeq(rag_engine.chunks,
                                   LAMBDA chunk : chunk.metadata.type = doc_type)
         IN  [code |-> 200, type |-> doc_type, count |-> Len(filtered),
              sources |-> [k \in 1..Len(filtered) |-> filtered[k].metadata]]

\* The response of list_sources.
list_sources(doc_type) ==
    IF rag_engine = NoEngine
    THEN [code |-> 503]
    ELSE LET filtered == SelectSeq(rag_engine.chunks,
                                   LAMBDA chunk : chunk.metadata.type = doc_type)
         IN  [code |-> 200, type |-> doc_type, count |-> Len(filtered),
              sources |-> [k \in 1..Len(filtered) |-> filtered[k].metadata]]

DocTypes == {"spell", "rule"}

\* A request that is not a question: no retrieve, no generate_answer.
NoQuestion ==
    /\ queryIn' = <<>>
    /\ topK' = DefaultTopK
    /\ retrieveOut' = NoResult
    /\ llmReply' = NoResult
    /\ answerOut' = NoResult
    /\ UNCHANGED retrieveAgain

\* GET /health.
Health ==
    /\ appState = "up"
    /\ httpOut' = [endpoint |-> "health", response |-> health]
    /\ NoQuestion
    /\ UNCHANGED <<fileVars, pipeVars, appState, rag_engine, argsortTies, chunkVars>>

\* GET /sources/{doc_type}: list_sources.
ListSources ==
    /\ appState = "up"
    /\ \E doc_type \in DocTypes :
          httpOut' = [endpoint |-> "sources", response |-> list_sources(doc_type)]
    /\ NoQuestion
    /\ UNCHANGED <<fileVars, pipeVars, appState, rag_engine, argsortTies, chunkVars>>

Next == StepOne \/ StepTwo \/ StepThree \/ Startup \/ Ask \/ Health \/ ListSources

Spec == Init /\ [][Next]_vars

(***************************************************************************)
(* Claims about the pipeline and the engine load, checked under Spec.      *)
(***************************************************************************)
\* C5: an engine instance exists only over aligned snapshots: wherever the
\* engine was constructed, len(chunks) = rows(embeddings) = len(metadata),
\* whatever the interleaving of pipeline steps and engine start.
C5_LoadedEngineAligned ==
    rag_engine # NoEngine =>
        /\ Len(rag_engine.chunks) = Len(rag_engine.embeddings)
        /\ Len(rag_engine.chunks) = Len(rag_engine.metadata)

\* C6: after run_full_pipeline the three snapshots are aligned with the
\* chunks of step 2: as many matrix rows and metadata entries as chunks, and
\* for every i the entry's id is i, its metadata and token_count are those
\* of chunk i, and row i is the embedding of chunk i's text.
C6_SnapshotsAligned ==
    pipePc = "done" =>
        /\ chunksFile = Some(pipeChunks)
        /\ embFile # None /\ metaFile # None
        /\ Len(embFile[1]) = Len(pipeChunks)
        /\ Len(metaFile[1]) = Len(pipeChunks)
        /\ \A i \in 1..Len(pipeChunks) :
              /\ metaFile[1][i].id = i - 1
              /\ metaFile[1][i].metadata = pipeChunks[i].metadata
              /\ metaFile[1][i].token_count = pipeChunks[i].token_count
              /\ embFile[1][i] = Embed(pipeChunks[i].text)

\* A second run completed over a corpus of spells, a monster and a rule
\* section split in two.
C6_Witness ==
    /\ pipePc = "done" /\ runs = 2
    /\ Len(pipeChunks) = 6
    /\ Len(embFile[1]) = 6
    /\ pipeChunks[4].metadata.type = "rule"
    /\ pipeChunks[5].metadata.chunk_index = 1

(***************************************************************************)
(* Claims about RAGEngine.retrieve and generate_answer, checked under      *)
(* SpecEngine.                                                             *)
(***************************************************************************)
RetrieveCalled == retrieveOut # NoResult

NumChunks == Len(rag_engine.chunks)

Scores == Similarities(rag_engine.embeddings, Embed(queryIn))

ResultScores == [k \in 1..Len(retrieveOut.results) |-> retrieveOut.results[k].score]

\* C1: with 1 <= top_k <= N, retrieve returns top_k pairs, each a chunk with
\* its own row's score, for different rows, and no row left out scores more
\* than a returned one; the scores 0.9, 0.1, 0.5, 0.7, 0.2 with top_k = 3
\* give the chunks scoring 0.9, 0.7, 0.5 in that order.
C1_TopKHighest ==
    (RetrieveCalled /\ 1 <= topK /\ topK <= NumChunks) =>
        /\ retrieveOut.status = "ok"
        /\ Len(retrieveOut.results) = topK
        /\ \E idx \in [1..topK -> 1..NumChunks] :
              /\ \A k, l \in 1..topK : k # l => idx[k] # idx[l]
              /\ \A k \in 1..topK :
                    retrieveOut.results[k] =
                        [chunk |-> rag_engine.chunks[idx[k]], score |-> Scores[idx[k]]]
              /\ \A i \in 1..NumChunks :
                    (\A k \in 1..topK : idx[k] # i) =>
                        \A k \in 1..topK : Scores[i] <= Scores[idx[k]]
        /\ (rag_engine = ScenarioEngine /\ topK = 3 =>
               /\ ResultScores = <<9000, 7000, 5000>>
               /\ retrieveOut.results[1].chunk = rag_engine.chunks[1]
               /\ retrieveOut.results[2].chunk = rag_engine.chunks[4]
               /\ retrieveOut.results[3].chunk = rag_engine.chunks[3])

\* The five-chunk scenario was retrieved with top_k = 3.
C1_Witness ==
    /\ RetrieveCalled /\ rag_engine = ScenarioEngine /\ topK = 3
    /\ ResultScores = <<9000, 7000, 5000>>

\* C2 as claimed: for top_k > 0 every returned score is strictly greater
\* than the one that follows it.
C2_StrictlyDescending ==
    (RetrieveCalled /\ topK > 0) =>
        \A k \in 1..(Len(retrieveOut.results) - 1) :
            retrieveOut.results[k].score > retrieveOut.results[k + 1].score

\* C2 as amended: for top_k > 0 the returned scores are descending, each at
\* least the one that follows it (chunks of equal score follow each other).
C2_Descending ==
    (RetrieveCalled /\ topK > 0) =>
        /\ retrieveOut.status = "ok"
        /\ \A k \in 1..(Len(retrieveOut.results) - 1) :
              retrieveOut.results[k].score >= retrieveOut.results[k + 1].score

\* Three results, the first two of equal score, the third lower.
C2_Witness ==
    /\ RetrieveCalled /\ topK > 0
    /\ Len(retrieveOut.results) = 3
    /\ retrieveOut.results[1].score = retrieveOut.results[2].score
    /\ retrieveOut.results[2].score > retrieveOut.results[3].score

\* C3: for top_k > 0 retrieve returns min(top_k, N) results and no error;
\* with top_k >= N they are all N chunks, each once.
C3_LengthMinTopKN ==
    (RetrieveCalled /\ topK > 0) =>
        /\ retrieveOut.status = "ok"
        /\ Len(retrieveOut.results) = Min(topK, NumChunks)
        /\ (topK >= NumChunks =>
               \A i \in 1..NumChunks :
                   Cardinality({k \in 1..Len(retrieveOut.results) :
                                   retrieveOut.results[k].chunk = rag_engine.chunks[i]}) = 1)

\* top_k = 10 was asked of the five-chunk index, and five results came back.
C3_Witness ==
    /\ RetrieveCalled /\ rag_engine = ScenarioEngine /\ topK = 10
    /\ retrieveOut.status = "ok"
    /\ Len(retrieveOut.results) = 5

\* C4: a request with top_k <= 0 is rejected before any computation: retrieve
\* returns no list of ranked chunks, and answer generation is not reached.
C4_RejectsNonPositiveTopK ==
    topK <= 0 =>
        /\ (RetrieveCalled => retrieveOut.status \notin {"ok"})
        /\ answerOut = NoResult

AnswerCalled == answerOut # NoResult

\* C10: when the generation call fails, generate_answer still returns: the
\* answer starts with "Error calling LLM:", there is one source per ranked
\* chunk passed in, built from that chunk, and context_used is their number.
C10_LlmFailureInline ==
    (AnswerCalled /\ llmReply.kind # "json") =>
        LET passed == retrieveOut.results
        IN  /\ answerOut.status = "ok"
            /\ Len(answerOut.answer) > 0
            /\ answerOut.answer[1] = "Error calling LLM: "
            /\ answerOut.context_used = Len(passed)
            /\ Len(answerOut.sources) = Len(passed)
            /\ \A j \in 1..Len(passed) :
                  /\ answerOut.sources[j].doc_id = j
                  /\ answerOut.sources[j].type = passed[j].chunk.metadata.type
                  /\ answerOut.sources[j].source = passed[j].chunk.metadata.source
                  /\ answerOut.sources[j].url = passed[j].chunk.metadata.url

\* The generation call timed out after two chunks were retrieved.
C10_Witness ==
    /\ AnswerCalled /\ llmReply.kind = "Timeout"
    /\ answerOut.status = "ok"
    /\ Len(retrieveOut.results) = 2
    /\ Len(answerOut.sources) = 2

\* C11: the sources of generate_answer are one per ranked chunk, in rank
\* order; the j-th (from 1) has doc_id j and the type, source and url of the
\* j-th chunk's metadata; context_used is the number of ranked chunks, which
\* is below the top_k asked for when the index has fewer chunks.
C11_SourcesPerChunk ==
    AnswerCalled =>
        LET passed == retrieveOut.results
        IN  /\ answerOut.status = "ok"
            /\ Len(answerOut.sources) = Len(passed)
            /\ answerOut.context_used = Len(answerOut.sources)
            /\ (topK > NumChunks => answerOut.context_used < topK)
            /\ \A j \in 1..Len(passed) :
                  LET md == passed[j].chunk.metadata
                  IN  answerOut.sources[j] =
                          [doc_id |-> j, type |-> md.type,
                           name |-> Get(md, "name", Some(<<"Unknown">>)),
                           source |-> md.source, url |-> md.url,
                           relevance_score |-> Round3(passed[j].score)]

\* The model answered over the five chunks retrieved for top_k = 10.
C11_Witness ==
    /\ AnswerCalled /\ llmReply.kind = "json"
    /\ rag_engine = ScenarioEngine /\ topK = 10
    /\ answerOut.context_used = 5
    /\ answerOut.sources[5].doc_id = 5

(***************************************************************************)
(* Claims about chunk_rule_section, checked under SpecChunk.               *)
(***************************************************************************)
ChunkCalled == chunkOut # NoResult

InTokens == Encode(<<"# ">> \o Get(ruleIn, "name", <<"Unknown Rule">>)
                   \o <<"\n\n">> \o Get(ruleIn, "desc", <<>>))

Stride == maxTok - ovl

\* The window starts the claim names: every k * stride below n.
WindowStarts(n, stride) == {k \in 0..n : k * stride < n}

\* C7: with overlap >= max_tokens, chunk_rule_section fails with a
\* configuration error for every record: it never returns a list of chunks.
C7_FailsFastOnBadStride ==
    (ChunkCalled /\ ovl >= maxTok) => chunkOut.status \notin {"ok"}

\* C8 as claimed: for a text of n > max_tokens tokens and 0 <= overlap <
\* max_tokens the chunks are, in order, one per window start k * stride < n;
\* chunk k has chunk_index k and holds exactly the tokens [k*stride,
\* min(k*stride + max_tokens, n)), so that every window but the last has
\* max_tokens tokens; the 1100-token section under the defaults gives 3
\* windows of stride 462, the last shorter than 512.
C8_WindowsOnlyLastShorter ==
    (ChunkCalled /\ Len(InTokens) > maxTok /\ ovl < maxTok) =>
        LET n == Len(InTokens)
            out == chunkOut.chunks
        IN  /\ chunkOut.status = "ok"
            /\ Len(out) = Cardinality(WindowStarts(n, Stride))
            /\ \A k \in 0..(Len(out) - 1) :
                  /\ out[k + 1].metadata.chunk_index = k
                  /\ out[k + 1].text =
                         Decode(SubSeq(InTokens, k * Stride + 1,
                                       Min(k * Stride + maxTok, n)))
                  /\ (k < Len(out) - 1 => out[k + 1].token_count = maxTok)
            /\ (ruleIn = LongRule =>
                   /\ n = 1100 /\ Stride = 462 /\ Len(out) = 3
                   /\ out[3].token_count < 512)

\* C8 as amended: the same windows, in the same order and with the same
\* chunk_index and tokens; a window has max_tokens tokens exactly when
\* k*stride + max_tokens <= n, and every window that starts in the last
\* max_tokens - 1 tokens is shorter (with overlap > 0 that can be more than
\* the last one).
C8_Windows ==
    (ChunkCalled /\ Len(InTokens) > maxTok /\ ovl < maxTok) =>
        LET n == Len(InTokens)
            out == chunkOut.chunks
        IN  /\ chunkOut.status = "ok"
            /\ Len(out) = Cardinality(WindowStarts(n, Stride))
            /\ \A k \in 0..(Len(out) - 1) :
                  /\ out[k + 1].metadata.chunk_index = k
                  /\ out[k + 1].text =
                         Decode(SubSeq(InTokens, k * Stride + 1,
                                       Min(k * Stride + maxTok, n)))
                  /\ out[k + 1].token_count = Min(maxTok, n - k * Stride)
            /\ (ruleIn = LongRule =>
                   /\ n = 1100 /\ Stride = 462 /\ Len(out) = 3
                   /\ out[3].token_count < 512)

\* The 1100-token section was split under the defaults.
C8_Witness ==
    /\ ChunkCalled /\ ruleIn = LongRule
    /\ Len(chunkOut.chunks) = 3
    /\ chunkOut.chunks[3].token_count = 176

\* The tokens chunk j was made of: the whole text when it was not split,
\* the j-th window otherwise.
HeldTokens(j) ==
    IF Len(InTokens) <= maxTok THEN InTokens
    ELSE SubSeq(InTokens, (j - 1) * Stride + 1,
                Min((j - 1) * Stride + maxTok, Len(InTokens)))

\* C9: every chunk returned under max_tokens >= 1, 0 <= overlap < max_tokens
\* has token_count <= max_tokens, split or not, and its token_count is the
\* number of tokens it holds: its text is the text of exactly that many
\* tokens of the input, counted as the split decision counted them.
C9_TokenCountBounded ==
    (ChunkCalled /\ maxTok >= 1 /\ ovl < maxTok) =>
        /\ chunkOut.status = "ok"
        /\ Len(chunkOut.chunks) >= 1
        /\ (Len(chunkOut.chunks) = 1 <=> count_tokens(Decode(InTokens)) <= maxTok)
        /\ \A j \in 1..Len(chunkOut.chunks) :
              /\ chunkOut.chunks[j].token_count <= maxTok
              /\ chunkOut.chunks[j].token_count = Len(HeldTokens(j))
              /\ chunkOut.chunks[j].text = Decode(HeldTokens(j))

\* A text holding a merged pair was split into overlapping windows, the
\* first of them full.
C9_Witness ==
    /\ ChunkCalled /\ ovl > 0 /\ ovl < maxTok
    /\ Len(chunkOut.chunks) >= 2
    /\ \E i \in 1..Len(InTokens) : InTokens[i] = "ab"
    /\ chunkOut.chunks[1].token_count = maxTok

(***************************************************************************)
(* Claims about step 2 of the pipeline, checked under Spec.                *)
(***************************************************************************)
\* step_2_process_and_chunk has just returned.
StepTwoDone == pipePc = "chunked"

\* The chunks of one type, in the order the corpus holds them.
OfType(chunks, t) == SelectSeq(chunks, LAMBDA c : c.metadata.type = t)

\* The rule sections' chunks, section after section.
RECURSIVE SectionChunks(_)
SectionChunks(rules) ==
    IF Len(rules) = 0 THEN <<>>
    ELSE SectionChunks(SubSeq(rules, 1, Len(rules) - 1))
             \o chunk_rule_section(rules[Len(rules)], DefaultMaxTokens,
                                   DefaultOverlap).chunks

\* C12: step 2 persists a corpus whichever raw files exist: a category
\* without a file gives no chunk and does not stop the categories after it,
\* a category with a file gives exactly the chunks of its records.
C12_PartialCorpus ==
    StepTwoDone =>
        /\ chunksFile = Some(pipeChunks)
        /\ Len(OfType(pipeChunks, "spell")) + Len(OfType(pipeChunks, "monster"))
               + Len(OfType(pipeChunks, "rule")) = Len(pipeChunks)
        /\ OfType(pipeChunks, "spell") =
               IF rawFiles.spells = None THEN <<>>
               ELSE [k \in 1..Len(rawFiles.spells[1]) |-> chunk_spell(rawFiles.spells[1][k])]
        /\ OfType(pipeChunks, "monster") =
               IF rawFiles.monsters = None THEN <<>>
               ELSE [k \in 1..Len(rawFiles.monsters[1]) |->
                        chunk_monster(rawFiles.monsters[1][k])]
        /\ OfType(pipeChunks, "rule") =
               IF rawFiles.rules = None THEN <<>> ELSE SectionChunks(rawFiles.rules[1])

\* Step 2 ran with rules.json as the only raw file.
C12_Witness ==
    /\ pipePc = "chunked"
    /\ rawFiles.spells = None /\ rawFiles.monsters = None /\ rawFiles.rules # None
    /\ chunksFile # None /\ Len(chunksFile[1]) = 3

\* The chunks step 2 must write for the raw files it read: chunk k is the
\* k-th spell's, the monsters' follow in file order, then the rule sections'
\* in file order; a sub-chunk numbered i > 0 stands right after the sub-chunk
\* numbered i - 1 of the same section.
InFixedOrder(raw, chunks) ==
    LET spells == RawRecords(raw, "spells")
        monsters == RawRecords(raw, "monsters")
        rules == RawRecords(raw, "rules")
        ns == Len(spells)
        nm == Len(monsters)
        Index(p) == chunks[p].metadata.chunk_index
    IN  /\ Len(chunks) >= ns + nm
        /\ \A k \in 1..ns : chunks[k] = chunk_spell(spells[k])
        /\ \A k \in 1..nm : chunks[ns + k] = chunk_monster(monsters[k])
        /\ SubSeq(chunks, ns + nm + 1, Len(chunks)) = SectionChunks(rules)
        /\ \A p \in (ns + nm + 1)..Len(chunks) :
              "chunk_index" \in DOMAIN chunks[p].metadata =>
                  \/ Index(p) = 0
                  \/ /\ p > ns + nm + 1
                     /\ "chunk_index" \in DOMAIN chunks[p - 1].metadata
                     /\ Index(p - 1) = Index(p) - 1
                     /\ chunks[p - 1].metadata.section = chunks[p].metadata.section

\* C13: two runs of step 2 over the same raw files write the same chunk
\* sequence, and every run writes the spells' chunks in file order, then the
\* monsters', then each rule section's sub-chunks together in chunk_index
\* order.
C13_FixedOrderRepeatable ==
    /\ \A i, j \in 1..Len(stepTwoLog) :
          stepTwoLog[i].raw = stepTwoLog[j].raw
              => stepTwoLog[i].chunks = stepTwoLog[j].chunks
    /\ StepTwoDone =>
          /\ stepTwoLog[Len(stepTwoLog)] = [raw |-> rawFiles, chunks |-> chunksFile[1]]
          /\ InFixedOrder(rawFiles, chunksFile[1])

\* Step 2 ran twice over the same two spells, one monster and two rule
\* sections, the first of them split in two.
C13_Witness ==
    /\ Len(stepTwoLog) = 2
    /\ stepTwoLog[1].raw = stepTwoLog[2].raw
    /\ stepTwoLog[2].raw.spells = Some(<<SpellB, SpellA>>)
    /\ stepTwoLog[2].raw.monsters = Some(<<MonsterA>>)
    /\ stepTwoLog[2].raw.rules = Some(<<RuleLong, RuleShort>>)
    /\ Len(stepTwoLog[2].chunks) = 6
    /\ stepTwoLog[2].chunks[5].metadata.chunk_index = 1

(***************************************************************************)
(* Claims about the API process, checked under Spec.                       *)
(***************************************************************************)
Answered(endpoint) == httpOut # NoResult /\ httpOut.endpoint = endpoint

\* C14: while rag_engine is unset, every /ask and every /sources request is
\* answered 503 and /health reports "not_ready".
C14_UnsetEngineAnswers503 ==
    rag_engine = NoEngine =>
        /\ Answered("ask") => httpOut.response = [code |-> 503]
        /\ Answered("sources") => httpOut.response = [code |-> 503]
        /\ Answered("health") =>
              httpOut.response.code = 200 /\ httpOut.response.status = "not_ready"

\* The API started before the pipeline had written anything, the pipeline
\* has run since, and a question was asked.
C14_Witness ==
    /\ appState = "up" /\ rag_engine = NoEngine
    /\ chunksFile # None /\ embFile # None
    /\ Answered("ask") /\ httpOut.response.code = 503

\* C17: every source generate_answer builds carries a string name, the
\* chunk's name or "Unknown" (for rule chunks and for spell or monster
\* records without a name), so that /ask can return it.
C17_SourceNameIsString ==
    (answerOut # NoResult /\ answerOut.status = "ok") =>
        /\ \A j \in 1..Len(answerOut.sources) :
              LET md == retrieveOut.results[j].chunk.metadata
                  name == answerOut.sources[j].name
              IN  /\ name # None
                  /\ name = IF "name" \in DOMAIN md /\ md.name # None
                            THEN md.name ELSE Some(<<"Unknown">>)
        /\ Answered("ask") => httpOut.response.code = 200

SpellCalled == spellOut # NoResult

\* The places of the text where a symbol stands.
Places(text, symbol) == {p \in 1..Len(text) : text[p] = symbol}

HigherLevels == Get(spellIn, "higher_level", <<>>)

\* C16: the text of the spell chunk holds the "At Higher Levels" header if
\* and only if the record has a non-empty higher_level; without it there is
\* no such section, not an empty one; the call gives one chunk either way.
C16_HigherLevelsIffSupplied ==
    SpellCalled =>
        LET text == spellOut.text
            at == Places(text, "\n**At Higher Levels:**")
        IN  /\ DOMAIN spellOut = {"text", "metadata", "token_count"}
            /\ spellOut.metadata.type = "spell"
            /\ at # {} <=> HigherLevels # <<>>
            /\ Cardinality(at) <= 1
            /\ \A p \in at :
                  SubSeq(text, p + 1, Len(text)) =
                      <<"\n">> \o JoinLines(HigherLevels)

\* chunk_spell was called on a record whose higher_level is the empty list.
C16_Witness ==
    /\ SpellCalled
    /\ "higher_level" \in DOMAIN spellIn /\ spellIn.higher_level = <<>>
    /\ "desc" \in DOMAIN spellIn /\ spellIn.desc # <<>>
    /\ spellOut.text[Len(spellOut.text)] = "b"

(***************************************************************************)
(* Claims about the coverage of a split, checked under SpecChunk.          *)
(***************************************************************************)
\* The token positions (from 0) chunk k (from 0) holds when its window
\* starts at k * stride.
Covered(k) ==
    {p \in 0..(Len(InTokens) - 1) :
        /\ k * Stride <= p
        /\ p < k * Stride + chunkOut.chunks[k + 1].token_count}

\* C18: a split of n > max_tokens tokens with 0 <= overlap < max_tokens
\* loses nothing: window k starts at k * stride (so the starts increase
\* strictly), no window is empty, every token position 0..n-1 lies in some
\* window, and there are ceil(n / (max_tokens - overlap)) windows.
C18_SplitCoversEveryToken ==
    (ChunkCalled /\ Len(InTokens) > maxTok /\ ovl < maxTok) =>
        LET n == Len(InTokens)
            out == chunkOut.chunks
        IN  /\ chunkOut.status = "ok"
            /\ Stride > 0
            /\ Len(out) = (n + Stride - 1) \div Stride
            /\ \A k \in 0..(Len(out) - 1) :
                  /\ out[k + 1].token_count >= 1
                  /\ k * Stride + out[k + 1].token_count <= n
                  /\ out[k + 1].text =
                         Decode(SubSeq(InTokens, k * Stride + 1,
                                       k * Stride + out[k + 1].token_count))
            /\ UNION {Covered(k) : k \in 0..(Len(out) - 1)} = 0..(n - 1)

\* A text was split without overlap into three windows or more, the last
\* of them holding a single token.
C18_Witness ==
    /\ ChunkCalled /\ ovl = 0 /\ maxTok >= 2
    /\ Len(InTokens) > maxTok
    /\ Len(chunkOut.chunks) >= 3
    /\ chunkOut.chunks[Len(chunkOut.chunks)].token_count = 1

====
